---- MODULE Spec2Model ----
(***************************************************************************)
(* A model of georgerob801/webserver-base: the ServerManager that turns a  *)
(* directory hierarchy of handler modules into an express dispatch tree    *)
(* (src/app.js), the hostname-keyed reverse-proxy handler module           *)
(* (src/unnamed/part_000) and the DatabaseManager it reads through         *)
(* (src/managers/DatabaseManager.js).                                      *)
(*                                                                         *)
(* JavaScript values are modelled as follows.  An optional value is a      *)
(* sequence of length at most one: <<>> is undefined, <<v>> is v.  A path  *)
(* is the sequence of its segments, so join(dir, name) is Append(dir,      *)
(* name).  Objects live in a heap (a sequence of records) and are referred *)
(* to by their index, so that two references to one module object of the   *)
(* require cache alias each other exactly as they do in node.              *)
(***************************************************************************)
EXTENDS Integers, Sequences, FiniteSets, TLC

VARIABLES
    disk,              \* the filesystem: directory listings and module files
    heap,              \* every object the build reads or writes, by reference
    cache,             \* node's require cache: file path -> heap reference
    routers,           \* express routers: routers[1] is this.app, then each express.Router()
    log,               \* the calls made to the LoggingManager, in order
    dumps,             \* the structures handed to #viewStructure, in order
    generated,         \* how many router ids randomstring has generated
    routeDirectories,  \* ServerManager.#routeDirectories
    vhostDirectories,  \* ServerManager.#vhostDirectories
    staticDirectories, \* ServerManager.#staticDirectories
    phase,             \* position of the bootstrap in app.js
    mappings,          \* rows of the mappings table: hostname -> localhost
    served,            \* the last request handled, with what happened to it
    proxyRes,          \* the headers of a response as the backend sent them
    headers,           \* the header object handed to userResHeaderDecorator
    db                 \* the DatabaseManager, its connections and its last call

vars == <<disk, heap, cache, routers, log, dumps, generated, routeDirectories,
          vhostDirectories, staticDirectories, phase, mappings, served, proxyRes,
          headers, db>>

-----------------------------------------------------------------------------
(* Optional values and small sequence helpers                               *)

None == <<>>

Some(x) == <<x>>

IsDef(o) == o # <<>>

Val(o) == o[1]

Range(s) == {s[i] : i \in 1..Len(s)}

\* Body applied to the value v: a result that is used more than once is named
\* by the parameter of Body
With(v, Body(_)) == Body(v)

RECURSIVE Concat(_)
Concat(ss) == IF ss = <<>> THEN <<>> ELSE Head(ss) \o Concat(Tail(ss))

-----------------------------------------------------------------------------
(* The bounds of the model                                                  *)

\* priorities written in handler and middleware files range over -MaxPrio..MaxPrio
MaxPrio == 1

\* header values of the proxied response are at most MaxLen characters long
MaxLen == 4

\* a function handed to operation makes at most MaxCalls calls of operation
MaxCalls == 2

\* at most MaxConnections connections are opened in one run
MaxConnections == 5

-----------------------------------------------------------------------------
(* Module objects, references to middleware, router layers                  *)

\* the method names #loadRoutes accepts as keys of route.methods
RecognizedMethods ==
    {"checkout", "copy", "delete", "get", "head", "lock", "merge", "mkactivity",
     "mkcol", "move", "m-search", "notify", "options", "patch", "post", "purge",
     "put", "report", "search", "subscribe", "trace", "unlock", "unsubscribe", "all"}

\* The object a handler or middleware file exports (RouteObject, and the
\* { run, name, priority } of a middleware module), with the three fields the
\* build writes on it: type, validMethods, filename.
ModuleObject(path, priority, methods, use, static, start, specific, run) ==
    [path |-> path, priority |-> priority, methods |-> methods, use |-> use,
     static |-> static, startingUsePriority |-> start,
     specificUsePriorities |-> specific, run |-> run,
     type |-> None, validMethods |-> None, filename |-> None]

\* one key of route.methods: fn is the function under it, None when the value
\* is not a function
Method(key, fn) == [key |-> key, fn |-> fn]

\* one element of route.use: a function, a directory name, or an array of them
FnRef(f) == [isFn |-> TRUE, fn |-> f, dir |-> <<>>]

DirRef(d) == [isFn |-> FALSE, fn |-> "", dir |-> d]

UseItem(ref) == [isArray |-> FALSE, elems |-> <<ref>>]

UseArray(refs) == [isArray |-> TRUE, elems |-> refs]

\* Array.prototype.flat(): one level of nesting is removed
Flat(use) == Concat([i \in 1..Len(use) |-> use[i].elems])

\* what one call on a router (or on this.app) leaves on its stack
Layer(kind, method, path, fn, priority, child, host, obj) ==
    [kind |-> kind, method |-> method, path |-> path, fn |-> fn,
     priority |-> priority, child |-> child, host |-> host, obj |-> obj]

LogEntry(level, what, file) == [level |-> level, what |-> what, file |-> file]

\* the state a build threads through its calls; exc is the exception in flight
BuildState(h, c, r, l, d, g, e) ==
    [heap |-> h, cache |-> c, routers |-> r, log |-> l, dumps |-> d,
     generated |-> g, exc |-> e]

Raise(st, e) == [st EXCEPT !.exc = Some(e)]

Logged(st, level, what, file) ==
    [st EXCEPT !.log = Append(@, LogEntry(level, what, file))]

\* JavaScript truthiness of an optional number and of an optional string
TruthyNum(o) == IsDef(o) /\ Val(o) # 0

TruthyStr(o) == IsDef(o) /\ Val(o) # ""

-----------------------------------------------------------------------------
(* The filesystem                                                           *)

\* filepath.split("."): the parts of each name that occurs in a listing
SplitDot(name) ==
    CASE name = "a.js" -> <<"a", "js">>
      [] name = "b.js" -> <<"b", "js">>
      [] name = "c.js" -> <<"c", "js">>
      [] name = "d.js" -> <<"d", "js">>
      [] name = "k.js" -> <<"k", "js">>
      [] name = "m.js" -> <<"m", "js">>
      [] name = "n.js" -> <<"n", "js">>
      [] name = "s.js" -> <<"s", "js">>
      [] name = "notes.txt" -> <<"notes", "txt">>
      [] name = "shop.{}" -> <<"shop", "{}">>
      [] name = "blog.{}" -> <<"blog", "{}">>
      [] name = "bare.{}" -> <<"bare", "{}">>
      [] OTHER -> <<name>>

\* filepath.split(".").pop()
Extension(name) == SplitDot(name)[Len(SplitDot(name))]

\* filepath.match(/(\S+)\.{}/): the text before ".{}" when the name holds it
\* (in a non-unicode pattern the braces of \.{} are literal), else no match
VhostMatch(name) ==
    LET parts == SplitDot(name)
    IN  IF Len(parts) = 2 /\ parts[2] = "{}" /\ parts[1] # ""
        THEN Some(parts[1])
        ELSE None

IsDirectory(p) == p \in disk.dirs

\* fs.readdirSync: the names in a directory; a missing directory throws
Readdir(p) == disk.list[p]

\* require(path): the cached object when the file was loaded before, else the
\* file's exports are evaluated and cached; a file whose evaluation throws is
\* not cached.  The result is the state and the reference, None on a throw.
Require(st, p) ==
    IF p \in DOMAIN st.cache
    THEN [st |-> st, ref |-> Some(st.cache[p])]
    ELSE IF disk.mods[p].loads
         THEN [st |-> [st EXCEPT !.heap = Append(@, disk.mods[p].exports),
                                 !.cache = @ @@ (p :> (Len(st.heap) + 1))],
               ref |-> Some(Len(st.heap) + 1)]
         ELSE [st |-> st, ref |-> None]

-----------------------------------------------------------------------------
(* Sorting: Array.prototype.sort((a, b) => b.priority - a.priority), which  *)
(* is stable                                                                *)

PriorityOf(h, ref) == Val(h[ref].priority)

\* ref goes behind every element whose priority is not smaller than its own
RECURSIVE InsertByPriority(_, _, _)
InsertByPriority(sorted, ref, h) ==
    IF sorted = <<>>
    THEN <<ref>>
    ELSE IF PriorityOf(h, Head(sorted)) >= PriorityOf(h, ref)
         THEN <<Head(sorted)>> \o InsertByPriority(Tail(sorted), ref, h)
         ELSE <<ref>> \o sorted

RECURSIVE SortInto(_, _, _)
SortInto(sorted, rest, h) ==
    IF rest = <<>>
    THEN sorted
    ELSE SortInto(InsertByPriority(sorted, Head(rest), h), Tail(rest), h)

SortByPriority(refs, h) == SortInto(<<>>, refs, h)

-----------------------------------------------------------------------------
(* ServerManager.#getUses                                                   *)

\* One file of the directory #getUses scans, after the directory test: the
\* module is loaded; a load that throws is logged and leaves use undefined,
\* and reading use.run then throws a TypeError; a module without run is
\* skipped with a warning; a falsy priority becomes 0 on the module object.
GetUsesFile(st, dir, filepath, toLoad) ==
    IF Extension(filepath) # "js"
    THEN [st |-> st, toLoad |-> toLoad]
    ELSE With(Require(st, Append(dir, filepath)), LAMBDA r :
         IF ~IsDef(r.ref)
         THEN [st |-> Raise(Logged(r.st, "error", "load", filepath), "TypeError"),
               toLoad |-> toLoad]
         ELSE IF ~IsDef(r.st.heap[Val(r.ref)].run)
         THEN [st |-> Logged(r.st, "warn", "norun", filepath), toLoad |-> toLoad]
         ELSE [st |-> IF TruthyNum(r.st.heap[Val(r.ref)].priority)
                      THEN r.st
                      ELSE [r.st EXCEPT !.heap[Val(r.ref)].priority = Some(0)],
               toLoad |-> Append(toLoad, Val(r.ref))])

RECURSIVE GetUsesDir(_, _), GetUsesFiles(_, _, _, _)

\* the loop over the listing: a subdirectory is scanned by a recursive call
\* whose result is dropped, then the name goes through the file steps
GetUsesFiles(st, dir, files, toLoad) ==
    IF files = <<>> \/ IsDef(st.exc)
    THEN [st |-> st, toLoad |-> toLoad]
    ELSE With(IF IsDirectory(Append(dir, Head(files)))
              THEN GetUsesDir(st, Append(dir, Head(files))).st
              ELSE st, LAMBDA inner :
         With(IF IsDef(inner.exc)
              THEN [st |-> inner, toLoad |-> toLoad]
              ELSE GetUsesFile(inner, dir, Head(files), toLoad), LAMBDA step :
         GetUsesFiles(step.st, dir, Tail(files), step.toLoad)))

\* #getUses(dir) for a directory name: the entries found, sorted
GetUsesDir(st, dir) ==
    IF ~IsDirectory(dir)
    THEN [st |-> Raise(st, "ENOENT"), uses |-> <<>>]
    ELSE With(GetUsesFiles(st, dir, Readdir(dir), <<>>), LAMBDA scan :
         [st |-> scan.st,
          uses |-> IF IsDef(scan.st.exc)
                   THEN <<>>
                   ELSE SortByPriority(scan.toLoad, scan.st.heap)])

\* #getUses(dir): a function yields one fresh object { run: dir }
getUses(st, ref) ==
    IF ref.isFn
    THEN [st |-> [st EXCEPT !.heap =
                     Append(@, ModuleObject(None, None, None, None, <<>>, None,
                                            None, Some(ref.fn)))],
          uses |-> <<Len(st.heap) + 1>>]
    ELSE GetUsesDir(st, ref.dir)

-----------------------------------------------------------------------------
(* ServerManager.#loadRoutes: the scan of the directories                   *)

\* the list of method names left out of the filter: every key passes
IsRecognizedAlways(key) == TRUE

IsRecognized(key) == key \in RecognizedMethods

\* Object.keys(route.methods)
MethodKeys(methods) == [i \in 1..Len(methods) |-> methods[i].key]

\* One name of a listing, after the directory test: a file that is not .js is
\* ignored; the module is loaded (a load that throws is logged and leaves
\* route undefined, and reading route.path then throws a TypeError); a module
\* without path is skipped with a warning; an undefined priority becomes 0 on
\* the module object; Object.keys of an undefined methods table throws a
\* TypeError; a module with no recognized method key is skipped with a
\* warning; else validMethods and filename are written on the module object
\* and it joins toLoad.
LoadRoutesFile(st, dir, filepath, toLoad) ==
    IF Extension(filepath) # "js"
    THEN [st |-> st, toLoad |-> toLoad]
    ELSE With(Require(st, Append(dir, filepath)), LAMBDA r :
         IF ~IsDef(r.ref)
         THEN [st |-> Raise(Logged(r.st, "error", "load", filepath), "TypeError"),
               toLoad |-> toLoad]
         ELSE IF ~TruthyStr(r.st.heap[Val(r.ref)].path)
         THEN [st |-> Logged(r.st, "warn", "nopath", filepath), toLoad |-> toLoad]
         ELSE With(IF IsDef(r.st.heap[Val(r.ref)].priority)
                   THEN r.st
                   ELSE Logged([r.st EXCEPT !.heap[Val(r.ref)].priority = Some(0)],
                               "info", "priority", filepath), LAMBDA defaulted :
              IF ~IsDef(defaulted.heap[Val(r.ref)].methods)
              THEN [st |-> Raise(defaulted, "TypeError"), toLoad |-> toLoad]
              ELSE With(SelectSeq(MethodKeys(Val(defaulted.heap[Val(r.ref)].methods)),
                                  IsRecognized), LAMBDA validMethods :
                   IF validMethods = <<>>
                   THEN [st |-> Logged(defaulted, "warn", "nomethods", filepath),
                         toLoad |-> toLoad]
                   ELSE [st |-> [defaulted EXCEPT
                                    !.heap[Val(r.ref)].validMethods = Some(validMethods),
                                    !.heap[Val(r.ref)].filename = Some(filepath)],
                         toLoad |-> Append(toLoad, Val(r.ref))])))

\* the loop over one listing: a directory is queued in scanAtPriority0, then
\* the name goes through the file steps
RECURSIVE LoadRoutesFiles(_, _, _, _, _)
LoadRoutesFiles(st, dir, files, toLoad, scanAtPriority0) ==
    IF files = <<>> \/ IsDef(st.exc)
    THEN [st |-> st, toLoad |-> toLoad, scanAtPriority0 |-> scanAtPriority0]
    ELSE With(LoadRoutesFile(st, dir, Head(files), toLoad), LAMBDA step :
         LoadRoutesFiles(step.st, dir, Tail(files), step.toLoad,
                         IF IsDirectory(Append(dir, Head(files)))
                         THEN Append(scanAtPriority0,
                                     [dir |-> dir, filepath |-> Head(files)])
                         ELSE scanAtPriority0))

\* the loop over scanDirectories
RECURSIVE LoadRoutesScan(_, _, _, _)
LoadRoutesScan(st, scanDirectories, toLoad, scanAtPriority0) ==
    IF scanDirectories = <<>> \/ IsDef(st.exc)
    THEN [st |-> st, toLoad |-> toLoad, scanAtPriority0 |-> scanAtPriority0]
    ELSE IF ~IsDirectory(Head(scanDirectories))
    THEN [st |-> Raise(st, "ENOENT"), toLoad |-> toLoad,
          scanAtPriority0 |-> scanAtPriority0]
    ELSE With(LoadRoutesFiles(st, Head(scanDirectories),
                              Readdir(Head(scanDirectories)), toLoad,
                              scanAtPriority0), LAMBDA scan :
         LoadRoutesScan(scan.st, Tail(scanDirectories), scan.toLoad,
                        scan.scanAtPriority0))

-----------------------------------------------------------------------------
(* ServerManager.#loadRoutes: the middleware of the handlers                *)

\* the fallback counter started at -1 whatever the handler asks for
StartingFallbackIgnored(start) == -1

\* let fallbackPriority = route.startingUsePriority || -1
StartingFallback(start) == IF TruthyNum(start) THEN Val(start) ELSE -1

\* route.specificUsePriorities?.[specificPriorityIndex], the index from 0
SpecificPriority(specific, specificPriorityIndex) ==
    IF IsDef(specific) /\ specificPriorityIndex + 1 <= Len(Val(specific))
    THEN Val(specific)[specificPriorityIndex + 1]
    ELSE None

\* The loop over the entries one #getUses call returned: each is marked as a
\* use and its priority is overwritten by the handler's specific priority at
\* the running index, or by the fallback counter, which then decreases.
RECURSIVE AssignUsePriorities(_, _, _, _, _)
AssignUsePriorities(h, route, uses, fallbackPriority, specificPriorityIndex) ==
    IF uses = <<>>
    THEN [heap |-> h, fallbackPriority |-> fallbackPriority,
          specificPriorityIndex |-> specificPriorityIndex]
    ELSE With(SpecificPriority(h[route].specificUsePriorities,
                               specificPriorityIndex), LAMBDA given :
         AssignUsePriorities(
             [h EXCEPT ![Head(uses)].type = Some("use"),
                       ![Head(uses)].priority =
                           IF IsDef(given) THEN given ELSE Some(fallbackPriority)],
             route, Tail(uses),
             IF IsDef(given) THEN fallbackPriority ELSE fallbackPriority - 1,
             specificPriorityIndex + 1))

\* the loop over route.use.flat() of one handler
RECURSIVE ResolveUseRefs(_, _, _, _, _, _)
ResolveUseRefs(st, route, refs, fallbackPriority, specificPriorityIndex, allUses) ==
    IF refs = <<>> \/ IsDef(st.exc)
    THEN [st |-> st, allUses |-> allUses]
    ELSE With(getUses(st, Head(refs)), LAMBDA got :
         IF IsDef(got.st.exc)
         THEN [st |-> got.st, allUses |-> allUses]
         ELSE With(AssignUsePriorities(got.st.heap, route, got.uses,
                                       fallbackPriority, specificPriorityIndex),
                   LAMBDA set :
              ResolveUseRefs([got.st EXCEPT !.heap = set.heap], route, Tail(refs),
                             set.fallbackPriority, set.specificPriorityIndex,
                             allUses \o got.uses)))

\* the loop over toLoad that fills allUses
RECURSIVE ResolveAllUses(_, _, _)
ResolveAllUses(st, routes, allUses) ==
    IF routes = <<>> \/ IsDef(st.exc)
    THEN [st |-> st, allUses |-> allUses]
    ELSE With(IF IsDef(st.heap[Head(routes)].use)
                 /\ Len(Val(st.heap[Head(routes)].use)) > 0
              THEN ResolveUseRefs(
                       st, Head(routes), Flat(Val(st.heap[Head(routes)].use)),
                       StartingFallback(st.heap[Head(routes)].startingUsePriority),
                       0, allUses)
              ELSE [st |-> st, allUses |-> allUses], LAMBDA got :
         ResolveAllUses(got.st, Tail(routes), got.allUses))

-----------------------------------------------------------------------------
(* ServerManager.#loadRoutes: registration                                  *)

\* (router ? router : this.app)
Target(router) == IF IsDef(router) THEN Val(router) ELSE 1

Registered(st, router, layer) ==
    [st EXCEPT !.routers[Target(router)] = Append(@, layer)]

\* route.methods[method]: the function under the key, None when its value is
\* not a function
MethodFunction(methods, method) ==
    LET i == CHOOSE j \in 1..Len(methods) : methods[j].key = method
    IN  methods[i].fn

\* this.#loadSingleStatic for each of route.static
RECURSIVE LoadLocalStatics(_, _, _)
LoadLocalStatics(st, router, static) ==
    IF static = <<>>
    THEN st
    ELSE LoadLocalStatics(
             Registered(st, router,
                        Layer("static", "", Head(static), "", 0, 0, <<>>, 0)),
             router, Tail(static))

\* The loop over route.validMethods: a key whose value is not a function is
\* skipped; else the function is bound to the path on the router and one
\* entry joins structure.routeStack.  The fields of the module object are read
\* when the binding is made.
RECURSIVE LoadMethods(_, _, _, _, _)
LoadMethods(st, structure, router, route, methods) ==
    IF methods = <<>>
    THEN [st |-> st, structure |-> structure]
    ELSE LET obj == st.heap[route]
             fn == MethodFunction(Val(obj.methods), Head(methods))
         IN  IF ~IsDef(fn)
             THEN LoadMethods(st, structure, router, route, Tail(methods))
             ELSE LoadMethods(
                      Registered(st, router,
                                 Layer("route", Head(methods), Val(obj.path), Val(fn),
                                       Val(obj.priority), 0, <<>>, route)),
                      [structure EXCEPT !.routeStack =
                          Append(@, [type |-> "route", path |-> obj.path,
                                     filename |-> obj.filename,
                                     priority |-> Val(obj.priority),
                                     methods |-> Val(obj.validMethods),
                                     fn |-> None])],
                      router, route, Tail(methods))

\* One element of the sorted toLoad: a handler has its statics and its method
\* functions registered, a use has its run function registered.
LoadEntry(st, structure, router, route) ==
    LET obj == st.heap[route]
    IN  IF obj.type # Some("use")
        THEN With(LoadMethods(LoadLocalStatics(st, router, obj.static), structure,
                              router, route, Val(obj.validMethods)), LAMBDA bound :
             [st |-> Logged(bound.st, "info", "loaded", Val(obj.filename)),
              structure |-> bound.structure])
        ELSE IF ~IsDef(obj.run)
        THEN [st |-> Raise(st, "TypeError"), structure |-> structure]
        ELSE [st |-> Logged(Registered(st, router,
                                       Layer("use", "", "", Val(obj.run),
                                             Val(obj.priority), 0, <<>>, route)),
                            "info", "loadeduse", ""),
              structure |-> [structure EXCEPT !.routeStack =
                                Append(@, [type |-> "use", path |-> None,
                                           filename |-> None,
                                           priority |-> Val(obj.priority),
                                           methods |-> <<>>,
                                           fn |-> obj.run])]]

RECURSIVE loadRoutes(_, _, _, _, _, _, _)

\* The loop over scanAtPriority0: a router is created, the subdirectory is
\* built on it by a recursive call, its structure joins structure.children,
\* and the router is mounted at /<filepath>.
RECURSIVE MountSubdirectories(_, _, _, _, _, _)
MountSubdirectories(st, structure, scanAtPriority0, router, prefix, pathPrefix) ==
    IF scanAtPriority0 = <<>> \/ IsDef(st.exc)
    THEN [st |-> st, structure |-> structure]
    ELSE LET e == Head(scanAtPriority0)
             newRouter == Len(st.routers) + 1
             newRouterID == st.generated + 1
         IN  With(loadRoutes([st EXCEPT !.routers = Append(@, <<>>),
                                        !.generated = newRouterID],
                             Some(Append(e.dir, e.filepath)), Some(newRouter),
                             prefix, Append(pathPrefix, e.filepath),
                             Some(newRouterID), TRUE), LAMBDA child :
             IF IsDef(child.st.exc)
             THEN [st |-> child.st, structure |-> structure]
             ELSE MountSubdirectories(
                      Registered(Logged(child.st, "info", "attach", e.filepath),
                                 router,
                                 Layer("mount", "", e.filepath, "", 0, newRouter,
                                       <<>>, 0)),
                      [structure EXCEPT !.children = Append(@, Val(child.structure))],
                      Tail(scanAtPriority0), router, prefix, pathPrefix))

\* The loop over the sorted toLoad: the subdirectories are mounted before the
\* first element whose priority is <= 0, then the element is registered.
RECURSIVE LoadEntries(_, _, _, _, _, _, _, _)
LoadEntries(st, structure, toLoad, dirScanned, scanAtPriority0, router, prefix, pathPrefix) ==
    IF toLoad = <<>> \/ IsDef(st.exc)
    THEN [st |-> st, structure |-> structure, dirScanned |-> dirScanned]
    ELSE LET now == ~dirScanned /\ PriorityOf(st.heap, Head(toLoad)) <= 0
         IN  With(IF now
                  THEN MountSubdirectories(st, structure, scanAtPriority0, router,
                                           prefix, pathPrefix)
                  ELSE [st |-> st, structure |-> structure], LAMBDA mounted :
             IF IsDef(mounted.st.exc)
             THEN [st |-> mounted.st, structure |-> mounted.structure,
                   dirScanned |-> dirScanned]
             ELSE With(LoadEntry(mounted.st, mounted.structure, router,
                                 Head(toLoad)), LAMBDA entry :
                  LoadEntries(entry.st, entry.structure, Tail(toLoad),
                              dirScanned \/ now, scanAtPriority0, router, prefix,
                              pathPrefix)))

\* #loadRoutes(dir, router, prefix, pathPrefix, routerID, innerLevel).  The
\* result holds the state and, for an inner level, the structure returned.
loadRoutes(st, dir, router, prefix, pathPrefix, routerID, innerLevel) ==
    IF routeDirectories = <<>> /\ ~IsDef(dir)
    THEN [st |-> st, structure |-> None]
    ELSE LET named == IF IsDef(routerID) THEN st ELSE [st EXCEPT !.generated = @ + 1]
             structure == [name |-> IF IsDef(routerID) THEN Val(routerID)
                                    ELSE st.generated + 1,
                           path |-> [prefix |-> prefix, pathPrefix |-> pathPrefix],
                           children |-> <<>>,
                           routeStack |-> <<>>]
         IN  \* the scan of the listings
             With(LoadRoutesScan(named, IF IsDef(dir) THEN <<Val(dir)>>
                                        ELSE routeDirectories, <<>>, <<>>),
                  LAMBDA scan :
             \* the middleware of the handlers found
             With(ResolveAllUses(scan.st, scan.toLoad, <<>>), LAMBDA uses :
             IF IsDef(uses.st.exc)
             THEN [st |-> uses.st, structure |-> None]
             ELSE \* toLoad.push(...allUses), then the sort
                  With(SortByPriority(scan.toLoad \o uses.allUses, uses.st.heap),
                       LAMBDA toLoad :
                  \* nothing to load: the subdirectories are mounted at once
                  With(IF toLoad = <<>>
                       THEN MountSubdirectories(uses.st, structure,
                                                scan.scanAtPriority0, router, prefix,
                                                pathPrefix)
                       ELSE [st |-> uses.st, structure |-> structure],
                       LAMBDA empty :
                  With(LoadEntries(empty.st, empty.structure, toLoad, toLoad = <<>>,
                                   scan.scanAtPriority0, router, prefix, pathPrefix),
                       LAMBDA loaded :
                  \* no element had a priority <= 0: they are mounted last
                  With(IF ~loaded.dirScanned /\ ~IsDef(loaded.st.exc)
                       THEN MountSubdirectories(loaded.st, loaded.structure,
                                                scan.scanAtPriority0, router, prefix,
                                                pathPrefix)
                       ELSE [st |-> loaded.st, structure |-> loaded.structure],
                       LAMBDA last :
                  IF IsDef(last.st.exc)
                  THEN [st |-> last.st, structure |-> None]
                  ELSE IF innerLevel
                  THEN [st |-> last.st, structure |-> Some(last.structure)]
                  ELSE [st |-> [last.st EXCEPT !.dumps = Append(@, last.structure)],
                        structure |-> None]))))))

-----------------------------------------------------------------------------
(* ServerManager.#loadVhosts, #loadStatics, setupFromState                  *)

\* require(join(settingsDir, "meta.json")).basehostname
BaseHostname == "example.com"

\* `${name}.${basehostname}`, as the sequence of its two parts
VhostName(name) == <<name, BaseHostname>>

\* The loop over the listing of one matching directory: for the subdirectory
\* named routes a router is created, the tree is built on it, and the router
\* is put behind vhost(hostname) on this.app.
RECURSIVE LoadVhostInner(_, _, _, _)
LoadVhostInner(st, dir, filepath, inner) ==
    IF inner = <<>> \/ IsDef(st.exc)
    THEN st
    ELSE IF ~IsDirectory(dir \o <<filepath, Head(inner)>>) \/ Head(inner) # "routes"
    THEN LoadVhostInner(st, dir, filepath, Tail(inner))
    ELSE LET hostname == VhostName(Val(VhostMatch(filepath)))
             router == Len(st.routers) + 1
         IN  With(loadRoutes(Logged([st EXCEPT !.routers = Append(@, <<>>)],
                                    "info", "vhost", filepath),
                             Some(dir \o <<filepath, "routes">>), Some(router),
                             Some(hostname), <<>>, None, FALSE).st, LAMBDA built :
             IF IsDef(built.exc)
             THEN built
             ELSE LoadVhostInner(
                      Registered(built, None,
                                 Layer("vhost", "", "", "", 0, router, hostname, 0)),
                      dir, filepath, Tail(inner)))

\* the loop over the listing of one vhost root
RECURSIVE LoadVhostFiles(_, _, _)
LoadVhostFiles(st, dir, files) ==
    IF files = <<>> \/ IsDef(st.exc)
    THEN st
    ELSE LET filepath == Head(files)
         IN  IF ~IsDirectory(Append(dir, filepath)) \/ ~IsDef(VhostMatch(filepath))
             THEN LoadVhostFiles(st, dir, Tail(files))
             ELSE LoadVhostFiles(
                      LoadVhostInner(st, dir, filepath,
                                     Readdir(Append(dir, filepath))),
                      dir, Tail(files))

RECURSIVE LoadVhostDirs(_, _)
LoadVhostDirs(st, dirs) ==
    IF dirs = <<>> \/ IsDef(st.exc)
    THEN st
    ELSE IF ~IsDirectory(Head(dirs))
    THEN Raise(st, "ENOENT")
    ELSE LoadVhostDirs(LoadVhostFiles(st, Head(dirs), Readdir(Head(dirs))),
                       Tail(dirs))

loadVhosts(st) ==
    IF vhostDirectories = <<>> THEN st ELSE LoadVhostDirs(st, vhostDirectories)

\* #loadStatics(): express.static of every static directory on this.app
RECURSIVE loadStatics(_, _)
loadStatics(st, dirs) ==
    IF dirs = <<>>
    THEN st
    ELSE loadStatics(Registered(st, None,
                                Layer("static", "", Head(dirs), "", 0, 0, <<>>, 0)),
                     Tail(dirs))

\* the three calls of setupFromState; an exception ends it where it is thrown
SetupFromState(st) ==
    With(loadVhosts(st), LAMBDA vhosts :
    IF IsDef(vhosts.exc)
    THEN vhosts
    ELSE With(loadRoutes(vhosts, None, None, Some(<<BaseHostname>>), <<>>, None,
                         FALSE).st, LAMBDA routes :
         IF IsDef(routes.exc)
         THEN routes
         ELSE loadStatics(routes, staticDirectories)))

-----------------------------------------------------------------------------
(* The files the model puts on the disk                                     *)

Priorities == (0 - MaxPrio)..MaxPrio

OptionalPriorities == {None} \cup {Some(p) : p \in Priorities}

\* a file of a listing: loads is whether evaluating it succeeds
File(loads, exports) == [present |-> TRUE, loads |-> loads, exports |-> exports]

Handler(path, priority, methods, use, static, start, specific) ==
    File(TRUE, ModuleObject(Some(path), priority, Some(methods), use, static, start,
                            specific, None))

Middleware(run, priority) ==
    File(TRUE, ModuleObject(None, priority, None, None, <<>>, None, None, run))

\* no file of that name in the listing
Absent == [present |-> FALSE, loads |-> FALSE,
           exports |-> ModuleObject(None, None, None, None, <<>>, None, None, None)]

\* a file whose evaluation throws
Broken == File(FALSE, ModuleObject(None, None, None, None, <<>>, None, None, None))

\* module.exports = { methods: { get } }
NoPath == File(TRUE, ModuleObject(None, None, Some(<<Method("get", Some("respond"))>>),
                                  None, <<>>, None, None, None))

\* module.exports = { path }
NoMethods == File(TRUE, ModuleObject(Some("/x"), None, None, None, <<>>, None, None,
                                     None))

\* module.exports = { path, methods: { fetch } }
UnknownMethod == Handler("/x", None, <<Method("fetch", Some("respond"))>>, None,
                         <<>>, None, None)

\* module.exports = { path, priority, methods: { get: "text", post } }
NotAFunction(priority) ==
    Handler("/x", priority, <<Method("get", None), Method("post", Some("respond"))>>,
            None, <<>>, None, None)

\* module.exports = { path, priority, methods: { get: "text" } }
OnlyNotAFunction(priority) ==
    Handler("/x", priority, <<Method("get", None)>>, None, <<>>, None, None)

\* startingUsePriority of the module of src/unnamed/part_000
ProxyPriority == 100

\* the module of src/unnamed/part_000
ProxyModule ==
    Handler("*", Some(0), <<Method("all", Some("void"))>>,
            Some(<<UseItem(FnRef("proxy"))>>), <<>>, Some(ProxyPriority), None)

\* handlers whose priority reaches that of the proxy middleware
HighHandlers(path, method) ==
    {Handler(path, Some(p), <<Method(method, Some("respond"))>>, None, <<>>, None, None) :
        p \in {ProxyPriority, ProxyPriority + 1}}

PlainHandlers(path, method) ==
    {Handler(path, p, <<Method(method, Some("respond"))>>, None, <<>>, None, None) :
        p \in OptionalPriorities}

\* two inline middleware functions, the second inside an array
InlineUseHandlers(path) ==
    {Handler(path, Some(0), <<Method("get", Some("respond"))>>,
             Some(<<UseItem(FnRef("next")), UseArray(<<FnRef("next")>>)>>), <<>>,
             start, None) :
        start \in OptionalPriorities}

\* the middleware of a directory, by name
DirUseHandlers(path) ==
    {Handler(path, Some(0), <<Method("get", Some("next"))>>,
             Some(<<UseItem(DirRef(<<"mw">>))>>), <<>>, start, None) :
        start \in {None, Some(MaxPrio)}}

\* positional priorities, with and without a hole at the first position
SpecificUseHandlers(path) ==
    {Handler(path, Some(0), <<Method("get", Some("respond"))>>,
             Some(<<UseItem(FnRef("next")), UseItem(FnRef("next"))>>), <<>>, None,
             Some(specific)) :
        specific \in {<<Some(MaxPrio)>>, <<None, Some(MaxPrio)>>}}

\* the middleware of a directory, by name, with positional priorities
DirSpecificUseHandlers(path) ==
    {Handler(path, Some(0), <<Method("get", Some("next"))>>,
             Some(<<UseItem(DirRef(<<"mw">>))>>), <<>>, None, Some(specific)) :
        specific \in {<<Some(MaxPrio)>>, <<None, Some(MaxPrio)>>}}

StaticHandler(path) ==
    Handler(path, Some(MaxPrio), <<Method("get", Some("next"))>>, None, <<"public">>,
            None, None)

FilesA ==
    PlainHandlers("/x", "get") \cup InlineUseHandlers("/x") \cup DirUseHandlers("/x")
      \cup SpecificUseHandlers("/x")
      \cup {Broken, NoPath, NoMethods, UnknownMethod, NotAFunction(Some(MaxPrio)),
            OnlyNotAFunction(Some(0)), ProxyModule, StaticHandler("/x")}

FilesB == PlainHandlers("/y", "post") \cup {Absent, Broken}

FilesC == DirUseHandlers("/c") \cup {Absent, Broken, NoPath}

FilesD == {Absent, Broken, Handler("/d", Some(0), <<Method("get", Some("respond"))>>,
                                   None, <<>>, None, None)}

FilesM == {Middleware(Some("next"), None), Middleware(Some("next"), Some(MaxPrio)),
           Middleware(None, None)}

FilesN == {Absent, Middleware(Some("next"), None)}

FilesS == {Handler("/s", None, <<Method("get", Some("respond"))>>, None, <<>>, None,
                   None),
           Handler("/s", None, <<Method("get", Some("next"))>>, None, <<>>, None,
                   None),
           Broken}

\* the names of a listing whose file is present, in the order given
Listing(names, files) ==
    LET Present(n) == files[n].present IN SelectSeq(names, Present)

\* the file at a path, when there is one
FileAt(p, f) ==
    IF f.present
    THEN (p :> [loads |-> f.loads, exports |-> f.exports])
    ELSE [q \in {} |-> 0]

\* The disk: the default route tree routes/{a.js, admin/{c.js, deep/{d.js}},
\* api/, b.js, notes.txt}, the middleware directory mw/{m.js, nested/{n.js}},
\* and the vhost root vhosts/ whose listing is order.
Disk(a, b, c, d, m, n, shop, blog, order) ==
    LET dir == [present |-> TRUE]
        file == [present |-> TRUE]
    IN  [dirs |-> {<<"routes">>, <<"routes", "admin">>, <<"routes", "admin", "deep">>,
                   <<"routes", "api">>, <<"mw">>, <<"mw", "nested">>, <<"vhosts">>,
                   <<"vhosts", "shop.{}">>, <<"vhosts", "shop.{}", "routes">>,
                   <<"vhosts", "shop.{}", "views">>,
                   <<"vhosts", "blog.{}">>, <<"vhosts", "blog.{}", "routes">>,
                   <<"vhosts", "bare.{}">>, <<"vhosts", "bare.{}", "views">>,
                   <<"vhosts", "plain">>, <<"vhosts", "plain", "routes">>},
         list |->
            (<<"routes">> :>
                Listing(<<"a.js", "admin", "api", "b.js", "notes.txt">>,
                        [x \in {"admin", "api", "notes.txt"} |-> dir]
                          @@ ("a.js" :> a) @@ ("b.js" :> b)))
            @@ (<<"routes", "admin">> :>
                Listing(<<"c.js", "deep">>, ("c.js" :> c) @@ ("deep" :> dir)))
            @@ (<<"routes", "admin", "deep">> :> Listing(<<"d.js">>, ("d.js" :> d)))
            @@ (<<"routes", "api">> :> <<>>)
            @@ (<<"mw">> :>
                Listing(<<"m.js", "nested", "notes.txt">>,
                        ("m.js" :> m) @@ ("nested" :> dir) @@ ("notes.txt" :> file)))
            @@ (<<"mw", "nested">> :> Listing(<<"n.js">>, ("n.js" :> n)))
            @@ (<<"vhosts">> :> order)
            @@ (<<"vhosts", "shop.{}">> :> <<"routes", "views">>)
            @@ (<<"vhosts", "shop.{}", "routes">> :> Listing(<<"s.js">>, ("s.js" :> shop)))
            @@ (<<"vhosts", "shop.{}", "views">> :> <<>>)
            @@ (<<"vhosts", "blog.{}">> :> <<"notes.txt", "routes">>)
            @@ (<<"vhosts", "blog.{}", "routes">> :> Listing(<<"s.js">>, ("s.js" :> blog)))
            @@ (<<"vhosts", "bare.{}">> :> <<"views">>)
            @@ (<<"vhosts", "bare.{}", "views">> :> <<>>)
            @@ (<<"vhosts", "plain">> :> <<"routes">>)
            @@ (<<"vhosts", "plain", "routes">> :> <<>>),
         mods |->
            FileAt(<<"routes", "a.js">>, a) @@ FileAt(<<"routes", "b.js">>, b)
            @@ FileAt(<<"routes", "admin", "c.js">>, c)
            @@ FileAt(<<"routes", "admin", "deep", "d.js">>, d)
            @@ FileAt(<<"mw", "m.js">>, m) @@ FileAt(<<"mw", "nested", "n.js">>, n)
            @@ FileAt(<<"vhosts", "shop.{}", "routes", "s.js">>, shop)
            @@ FileAt(<<"vhosts", "blog.{}", "routes", "s.js">>, blog)]

\* the disk d with one more file, listed first in its directory
WithFile(d, dir, name, f) ==
    IF ~f.present
    THEN d
    ELSE [d EXCEPT !.list[dir] = <<name>> \o @,
                   !.mods = FileAt(Append(dir, name), f) @@ @]

\* the listings of the vhost root: readdirSync gives the names in the order
\* of the filesystem
VhostListings ==
    {<<"README", "bare.{}", "blog.{}", "plain", "shop.{}">>,
     <<"shop.{}", "plain", "blog.{}", "bare.{}", "README">>}

-----------------------------------------------------------------------------
(* A request through the dispatch tree                                      *)

\* the segments of the paths the handler files declare
PathSegments(path) ==
    CASE path = "/x" -> <<"x">>
      [] path = "/y" -> <<"y">>
      [] path = "/c" -> <<"c">>
      [] path = "/d" -> <<"d">>
      [] path = "/s" -> <<"s">>
      [] OTHER -> <<path>>

\* a method binding router[method](path, fn) takes a request of that method,
\* or of any method for all, whose remaining path is path, or any path for *
RouteMatches(layer, method, path) ==
    /\ layer.path = "*" \/ PathSegments(layer.path) = path
    /\ layer.method = "all" \/ layer.method = method

\* router.use("/<name>", child) takes the paths that start with the segment
MountMatches(layer, path) == path # <<>> /\ Head(path) = layer.path

\* the position of a request in one router: the layer to try next, the path
\* left of the mount points, and the tree the router belongs to (the hostname
\* of its vhost, <<>> for the default tree)
Frame(router, index, path, tree) ==
    [router |-> router, index |-> index, path |-> path, tree |-> tree]

\* db.prepare("SELECT localhost FROM mappings WHERE hostname = ?").get(hostname)
\* through DatabaseManager.operation: the row, or undefined
LookupLocalhost(hostname) ==
    IF hostname \in DOMAIN mappings THEN Some(mappings[hostname]) ELSE None

\* the response and what happened to the request so far
NewContext ==
    [headersSent |-> FALSE, status |-> 200, visited |-> <<>>, events |-> <<>>]

Event(ctx, e) == [ctx EXCEPT !.events = Append(@, e)]

\* what express does when no layer is left: an error with the headers sent
\* closes the socket, an error otherwise is answered 500, no error 404
FinalHandler(ctx, err) ==
    IF IsDef(err)
    THEN IF ctx.headersSent
         THEN Event(ctx, "destroyed")
         ELSE Event([ctx EXCEPT !.headersSent = TRUE, !.status = 500], "final500")
    ELSE IF ctx.headersSent
         THEN ctx
         ELSE Event([ctx EXCEPT !.headersSent = TRUE, !.status = 404], "final404")

\* a fallback without the headersSent test: it always answers itself
ErrorFallbackAlwaysWrites(res) ==
    [res |-> Event([res EXCEPT !.status = 500], "fallback:critical"), next |-> FALSE]

\* (err, req, res, next) => { if (res.headersSent) return next(err);
\*                            res.status(500); critical(err); } of app.js:
\* the response after it, and whether it called next(err)
ErrorFallback(res) ==
    IF res.headersSent
    THEN [res |-> Event(res, "fallback:next(err)"), next |-> TRUE]
    ELSE [res |-> Event([res EXCEPT !.status = 500], "fallback:critical"),
          next |-> FALSE]

\* The request at the head frame of stack: the layers of each router are
\* tried in order; next() goes on with the rest of the stack, and the end of
\* a router goes on in the router that holds it.  With an error in flight
\* only the error fallback is called.  A function that throws has its error
\* passed to next by express.
RECURSIVE Run(_, _, _, _)
Run(stack, req, ctx, err) ==
    IF stack = <<>>
    THEN FinalHandler(ctx, err)
    ELSE LET frame == Head(stack)
             layers == routers[frame.router]
             layer == layers[frame.index]
             rest == <<[frame EXCEPT !.index = @ + 1]>> \o Tail(stack)
             seen == [ctx EXCEPT !.visited =
                         Append(@, [tree |-> frame.tree, router |-> frame.router,
                                    index |-> frame.index, kind |-> layer.kind,
                                    fn |-> layer.fn])]
             \* module.exports.use[0] of src/unnamed/part_000
             Proxy ==
                 IF ~IsDef(LookupLocalhost(req.hostname))
                 THEN \* next() runs the rest of the chain, then reading
                      \* localname.localhost throws a TypeError
                      Run(rest, req,
                          Event(Run(rest, req, Event(seen, "proxy:next()"), None),
                                "proxy:TypeError"),
                          Some("TypeError"))
                 ELSE \* proxy is not defined in the module: a ReferenceError
                      Run(rest, req, Event(seen, "proxy:ReferenceError"),
                          Some("ReferenceError"))
             Invoke ==
                 CASE layer.fn = "respond" ->
                          Event([seen EXCEPT !.headersSent = TRUE], "responded")
                   [] layer.fn = "next" -> Run(rest, req, seen, None)
                   [] layer.fn = "proxy" -> Proxy
                   [] OTHER -> Event(seen, "returned")
         IN  IF frame.index > Len(layers)
             THEN Run(Tail(stack), req, ctx, err)
             ELSE CASE layer.kind = "error" ->
                          IF ~IsDef(err)
                          THEN Run(rest, req, ctx, err)
                          ELSE IF ErrorFallback(seen).next
                          THEN Run(rest, req, ErrorFallback(seen).res, err)
                          ELSE ErrorFallback(seen).res
                    [] layer.kind # "error" /\ IsDef(err) -> Run(rest, req, ctx, err)
                    [] layer.kind = "vhost" /\ ~IsDef(err) ->
                          IF layer.host = req.hostname
                          THEN Run(<<Frame(layer.child, 1, frame.path, layer.host)>>
                                     \o rest, req, ctx, err)
                          ELSE Run(rest, req, ctx, err)
                    [] layer.kind = "mount" /\ ~IsDef(err) ->
                          IF MountMatches(layer, frame.path)
                          THEN Run(<<Frame(layer.child, 1, Tail(frame.path),
                                           frame.tree)>> \o rest, req, ctx, err)
                          ELSE Run(rest, req, ctx, err)
                    [] layer.kind = "static" /\ ~IsDef(err) ->
                          Run(rest, req, seen, err)
                    [] layer.kind = "use" /\ ~IsDef(err) -> Invoke
                    [] layer.kind = "route" /\ ~IsDef(err) ->
                          IF RouteMatches(layer, req.method, frame.path)
                          THEN Invoke
                          ELSE Run(rest, req, ctx, err)

\* the requests the model sends
Hostnames == {<<"shop", BaseHostname>>, <<BaseHostname>>}

Requests ==
    [hostname : Hostnames, method : {"get", "post"},
     path : {<<"x">>, <<"y">>, <<"s">>, <<"admin", "c">>}]

-----------------------------------------------------------------------------
(* The header rewrite of src/unnamed/part_000                               *)
(* A string is the sequence of its characters.                              *)

\* the first index at which pat occurs in s, 0 when it does not
OccursAt(s, pat, i) ==
    /\ i + Len(pat) - 1 <= Len(s)
    /\ SubSeq(s, i, i + Len(pat) - 1) = pat

IndexOf(s, pat) ==
    IF \E i \in 1..Len(s) : OccursAt(s, pat, i)
    THEN CHOOSE i \in 1..Len(s) :
            OccursAt(s, pat, i) /\ \A j \in 1..(i - 1) : ~OccursAt(s, pat, j)
    ELSE 0

\* String.prototype.replace(pattern, replacement) with a string pattern: the
\* first occurrence is replaced
Replace(s, pat, rep) ==
    IF IndexOf(s, pat) = 0
    THEN s
    ELSE SubSeq(s, 1, IndexOf(s, pat) - 1) \o rep
           \o SubSeq(s, IndexOf(s, pat) + Len(pat), Len(s))

\* a header value: a string, or (as set-cookie is) an array of one string
StringValue(chars) == [isString |-> TRUE, chars |-> chars]

ArrayValue(chars) == [isString |-> FALSE, chars |-> chars]

\* userResHeaderDecorator: (headers, ...) => { Object.keys(headers).forEach(
\*   x => { if (typeof headers[x] == "string")
\*            headers[x] = headers[x].replace(localname, hostname) }) }
userResHeaderDecorator(hs, localname, hostname) ==
    [x \in DOMAIN hs |->
        IF hs[x].isString
        THEN StringValue(Replace(hs[x].chars, localname, hostname))
        ELSE hs[x]]

-----------------------------------------------------------------------------
(* src/managers/DatabaseManager.js                                          *)

\* static #ready = false; static #path; no connection yet.  closes[c] counts
\* the calls of close on connection c, trace lists what the last call of init
\* or operation did, outcome is how that call ended
DbFresh ==
    [ready |-> FALSE, path |-> None, opened |-> 0, open |-> {}, closes |-> <<>>,
     trace |-> <<>>, outcome |-> None]

DbEvent(d, op, conn) == [d EXCEPT !.trace = Append(@, [op |-> op, conn |-> conn])]

Returned(value) == [kind |-> "return", value |-> value]

Thrown(error) == [kind |-> "throw", value |-> error]

\* require("better-sqlite3")(path) opens the file or throws
Openable(path) == path = Some("databases/db.sqlite")

\* db.close()
Close(d, conn) ==
    DbEvent([d EXCEPT !.open = @ \ {conn}, !.closes[conn] = @ + 1], "close", conn)

\* A function f handed to operation: the calls of operation it makes, whether
\* it catches what they throw, and whether it throws at its end.  Its result
\* and its error are marked with the connection it ran on.
\* operation(f): lines 60-75.  RunF is output = f(db).
RECURSIVE Operation(_, _)
RECURSIVE RunF(_, _, _)
RECURSIVE RunCalls(_, _, _, _)
RunCalls(d, f, conn, calls) ==
    IF calls = <<>>
    THEN [db |-> DbEvent(d, "end", conn),
          outcome |-> IF f.throws
                      THEN Thrown(<<"error", conn>>)
                      ELSE Returned(<<"result", conn>>)]
    ELSE With(Operation(d, Head(calls)), LAMBDA inner :
         IF inner.outcome.kind = "throw" /\ ~f.catches
         THEN [db |-> inner.db, outcome |-> inner.outcome]
         ELSE RunCalls(inner.db, f, conn, Tail(calls)))

RunF(d, f, conn) == RunCalls(DbEvent(d, "run", conn), f, conn, f.calls)

\* operation without the catch: f's error leaves the connection open
OperationWithoutCatch(d, f) ==
    IF ~d.ready
    THEN [db |-> d, outcome |-> Thrown(<<"error", "not initialised">>)]
    ELSE IF ~Openable(d.path)
    THEN [db |-> d, outcome |-> Thrown(<<"error", "cannot open">>)]
    ELSE With(RunF(DbEvent([d EXCEPT !.opened = @ + 1,
                                     !.open = @ \cup {d.opened + 1},
                                     !.closes = Append(@, 0)],
                           "open", d.opened + 1), f, d.opened + 1), LAMBDA ran :
         IF ran.outcome.kind = "throw"
         THEN [db |-> DbEvent(ran.db, "throw", d.opened + 1), outcome |-> ran.outcome]
         ELSE [db |-> DbEvent(Close(ran.db, d.opened + 1), "return", d.opened + 1),
               outcome |-> ran.outcome])

Operation(d, f) ==
    IF ~d.ready
    THEN [db |-> d, outcome |-> Thrown(<<"error", "not initialised">>)]
    ELSE IF ~Openable(d.path)
    THEN [db |-> d, outcome |-> Thrown(<<"error", "cannot open">>)]
    ELSE With(RunF(DbEvent([d EXCEPT !.opened = @ + 1,
                                     !.open = @ \cup {d.opened + 1},
                                     !.closes = Append(@, 0)],
                           "open", d.opened + 1), f, d.opened + 1), LAMBDA ran :
         IF ran.outcome.kind = "throw"
         THEN [db |-> DbEvent(Close(ran.db, d.opened + 1), "throw", d.opened + 1),
               outcome |-> ran.outcome]
         ELSE [db |-> DbEvent(Close(ran.db, d.opened + 1), "return", d.opened + 1),
               outcome |-> ran.outcome])

\* db => { #tableDefinitions.forEach(x => db.exec(...)) } with no definitions
TableDefinitions == [calls |-> <<>>, catches |-> FALSE, throws |-> FALSE]

\* DatabaseManager.init(dbPath): lines 38-53
DbInit(d, dbPath) ==
    IF ~TruthyStr(dbPath)
    THEN [db |-> d, outcome |-> Thrown(<<"error", "no database path provided">>)]
    ELSE With(Operation([d EXCEPT !.path = dbPath, !.ready = TRUE], TableDefinitions),
              LAMBDA made :
         IF made.outcome.kind = "throw"
         THEN made
         ELSE [db |-> made.db, outcome |-> Returned(<<"DatabaseManager">>)])

\* one call from outside: the trace starts anew and the outcome is kept
DbBefore(d) == [d EXCEPT !.trace = <<>>, !.outcome = None]

DbCall(result) == [result.db EXCEPT !.outcome = Some(result.outcome)]

\* the manager after require("./managers/DatabaseManager").init(...) of app.js
DbReady == DbCall(DbInit(DbFresh, Some("databases/db.sqlite")))

-----------------------------------------------------------------------------
(* The bootstrap of app.js                                                  *)

\* the directories app.js may register before setupFromState
RouteRoots == {<<"routes">>}

VhostRoots == {<<"vhosts">>}

StaticRoots == {"public"}

EmptyCache == [p \in {} |-> 0]

InitBoot ==
    /\ heap = <<>>
    /\ cache = EmptyCache
    /\ routers = <<(<<>>)>>
    /\ log = <<>>
    /\ dumps = <<>>
    /\ generated = 0
    /\ routeDirectories = <<>>
    /\ vhostDirectories = <<>>
    /\ staticDirectories = <<>>
    /\ phase = "configure"
    /\ mappings = (<<"shop", BaseHostname>> :> "backend")
    /\ served = None
    /\ db = DbReady

\* no response is being proxied
EmptyHeaders == [x \in {} |-> StringValue(<<>>)]

NoProxying ==
    /\ proxyRes = EmptyHeaders
    /\ headers = EmptyHeaders

Init ==
    /\ \E a \in FilesA, b \in FilesB, c \in FilesC, d \in FilesD, m \in FilesM,
          n \in FilesN :
          disk = Disk(a, b, c, d, m, n,
                      Handler("/s", None, <<Method("get", Some("respond"))>>, None,
                              <<>>, None, None),
                      Absent, <<"README", "bare.{}", "blog.{}", "plain", "shop.{}">>)
    /\ InitBoot
    /\ NoProxying

\* addRouteDirectory(dir): dir joins the list unless it is in it
addRouteDirectory(dir) ==
    /\ phase = "configure"
    /\ routeDirectories' = IF dir \in Range(routeDirectories)
                           THEN routeDirectories
                           ELSE Append(routeDirectories, dir)
    /\ UNCHANGED <<disk, heap, cache, routers, log, dumps, generated,
                   vhostDirectories, staticDirectories, phase, mappings, served,
                   proxyRes, headers, db>>

addVhostDirectory(dir) ==
    /\ phase = "configure"
    /\ vhostDirectories' = IF dir \in Range(vhostDirectories)
                           THEN vhostDirectories
                           ELSE Append(vhostDirectories, dir)
    /\ UNCHANGED <<disk, heap, cache, routers, log, dumps, generated,
                   routeDirectories, staticDirectories, phase, mappings, served,
                   proxyRes, headers, db>>

addStaticDirectory(dir) ==
    /\ phase = "configure"
    /\ staticDirectories' = IF dir \in Range(staticDirectories)
                            THEN staticDirectories
                            ELSE Append(staticDirectories, dir)
    /\ UNCHANGED <<disk, heap, cache, routers, log, dumps, generated,
                   routeDirectories, vhostDirectories, phase, mappings, served,
                   proxyRes, headers, db>>

\* serverManager.setupFromState(): an exception it throws is not caught by
\* app.js and ends the process
setupFromState ==
    /\ phase = "configure"
    /\ \E done \in {SetupFromState(BuildState(heap, cache, routers, log, dumps,
                                              generated, None))} :
          /\ heap' = done.heap
          /\ cache' = done.cache
          /\ routers' = done.routers
          /\ log' = done.log
          /\ dumps' = done.dumps
          /\ generated' = done.generated
          /\ phase' = IF IsDef(done.exc) THEN "crashed" ELSE "built"
    /\ UNCHANGED <<disk, routeDirectories, vhostDirectories, staticDirectories,
                   mappings, served,
                   proxyRes, headers, db>>

\* app.use((err, req, res, next) => ...) of app.js, after setupFromState
useErrorFallback ==
    /\ phase = "built"
    /\ routers' = [routers EXCEPT ![1] =
                      Append(@, Layer("error", "", "", "fallback", 0, 0, <<>>, 0))]
    /\ phase' = "guarded"
    /\ UNCHANGED <<disk, heap, cache, log, dumps, generated, routeDirectories,
                   vhostDirectories, staticDirectories, mappings, served,
                   proxyRes, headers, db>>

\* serverManager.start() called right after setupFromState, before the error
\* fallback is registered
startBeforeFallback ==
    /\ phase \in {"built", "guarded"}
    /\ phase' = "listening"
    /\ UNCHANGED <<disk, heap, cache, routers, log, dumps, generated,
                   routeDirectories, vhostDirectories, staticDirectories, mappings,
                   served,
                   proxyRes, headers, db>>

\* serverManager.start()
start ==
    /\ phase = "guarded"
    /\ phase' = "listening"
    /\ UNCHANGED <<disk, heap, cache, routers, log, dumps, generated,
                   routeDirectories, vhostDirectories, staticDirectories, mappings,
                   served,
                   proxyRes, headers, db>>

\* one request handled by this.app
HandleRequest(req) ==
    /\ phase = "listening"
    /\ served' = Some([request |-> req,
                       result |-> Run(<<Frame(1, 1, req.path, <<>>)>>, req,
                                      NewContext, None)])
    /\ UNCHANGED <<disk, heap, cache, routers, log, dumps, generated,
                   routeDirectories, vhostDirectories, staticDirectories, phase,
                   mappings, proxyRes, headers, db>>

\* the build: the directories are registered and setupFromState runs
Next ==
    \/ \E dir \in RouteRoots : addRouteDirectory(dir)
    \/ \E dir \in VhostRoots : addVhostDirectory(dir)
    \/ \E dir \in StaticRoots : addStaticDirectory(dir)
    \/ setupFromState

Spec == Init /\ [][Next]_vars

\* the build, then the server takes requests
NextServe ==
    \/ \E dir \in RouteRoots : addRouteDirectory(dir)
    \/ \E dir \in VhostRoots : addVhostDirectory(dir)
    \/ \E dir \in StaticRoots : addStaticDirectory(dir)
    \/ setupFromState
    \/ useErrorFallback
    \/ start
    \/ \E req \in Requests : HandleRequest(req)

PlainS(fn) ==
    Handler("/s", None, <<Method("get", Some(fn))>>, None, <<>>, None, None)

\* the vhost root varies: each vhost has a handler that answers, one that
\* passes on, or a file that does not load; the default tree has one handler
InitVhost ==
    /\ \E shop \in FilesS, blog \in FilesS \cup {Absent}, order \in VhostListings,
          a \in PlainHandlers("/x", "get") \cup {Broken} :
          disk = Disk(a, Absent, Absent, Absent, Middleware(Some("next"), None),
                      Absent, shop, blog, order)
    /\ InitBoot
    /\ NoProxying

SpecVhost == InitVhost /\ [][NextServe]_vars

\* the proxy module is a.js of the default tree, beside another handler
InitProxy ==
    /\ \E b \in FilesB \cup HighHandlers("/y", "post"), c \in FilesC, shop \in FilesS :
          disk = Disk(ProxyModule, b, c, Absent, Middleware(Some("next"), None),
                      Absent, shop, Absent,
                      <<"README", "bare.{}", "blog.{}", "plain", "shop.{}">>)
    /\ InitBoot
    /\ NoProxying

SpecProxy == InitProxy /\ [][NextServe]_vars

\* the header rewrite alone: a response of the backend localname for a request
\* to HostName goes through userResHeaderDecorator
Alphabet == {"a", "b", "/"}

Strings == UNION {[1..k -> Alphabet] : k \in 0..MaxLen}

HostName == <<"h">>

LocalNames == {<<"a">>, <<"a", "b">>}

InitRewrite ==
    /\ disk = Disk(ProxyModule, Absent, Absent, Absent, Middleware(Some("next"), None),
                   Absent, Absent, Absent,
                   <<"README", "bare.{}", "blog.{}", "plain", "shop.{}">>)
    /\ heap = <<>>
    /\ cache = EmptyCache
    /\ routers = <<(<<>>)>>
    /\ log = <<>>
    /\ dumps = <<>>
    /\ generated = 0
    /\ routeDirectories = <<>>
    /\ vhostDirectories = <<>>
    /\ staticDirectories = <<>>
    /\ phase = "proxying"
    /\ served = None
    /\ db = DbReady
    /\ \E localname \in LocalNames : mappings = (HostName :> localname)
    /\ \E location \in Strings, cookie \in Strings :
          proxyRes = ("location" :> StringValue(location)
                        @@ "set-cookie" :> ArrayValue(cookie))
    /\ headers = proxyRes

\* the proxy hands the headers of the backend's response to the decorator
\* and sends what it returns
ProxyResponse ==
    /\ phase = "proxying"
    /\ headers' = userResHeaderDecorator(headers, mappings[HostName], HostName)
    /\ phase' = "decorated"
    /\ UNCHANGED <<disk, heap, cache, routers, log, dumps, generated,
                   routeDirectories, vhostDirectories, staticDirectories, mappings,
                   served, proxyRes, db>>

NextRewrite == ProxyResponse

SpecRewrite == InitRewrite /\ [][NextRewrite]_vars


\* the DatabaseManager alone: any sequence of init and operation calls.  The
\* functions handed to operation call operation themselves to two levels.
DbPaths == {None, Some("databases/db.sqlite"), Some("missing/db.sqlite")}

CallSequences(fs) == UNION {[1..k -> fs] : k \in 0..MaxCalls}

FunctionsOver(fs) ==
    {[calls |-> cs, catches |-> c, throws |-> t] :
        cs \in CallSequences(fs), c \in BOOLEAN, t \in BOOLEAN}

Leaves == {[calls |-> <<>>, catches |-> FALSE, throws |-> t] : t \in BOOLEAN}

Functions ==
    FunctionsOver(Leaves)
      \cup {[calls |-> <<g>>, catches |-> c, throws |-> t] :
               g \in FunctionsOver(Leaves), c \in BOOLEAN, t \in BOOLEAN}

InitDb ==
    /\ disk = Disk(Absent, Absent, Absent, Absent, Middleware(Some("next"), None),
                   Absent, Absent, Absent,
                   <<"README", "bare.{}", "blog.{}", "plain", "shop.{}">>)
    /\ heap = <<>>
    /\ cache = EmptyCache
    /\ routers = <<(<<>>)>>
    /\ log = <<>>
    /\ dumps = <<>>
    /\ generated = 0
    /\ routeDirectories = <<>>
    /\ vhostDirectories = <<>>
    /\ staticDirectories = <<>>
    /\ phase = "database"
    /\ mappings = (<<"shop", BaseHostname>> :> "backend")
    /\ served = None
    /\ NoProxying
    /\ db = DbFresh

\* DatabaseManager.init(dbPath)
init(dbPath) ==
    /\ phase = "database"
    /\ db.opened < MaxConnections
    /\ db' = DbCall(DbInit(DbBefore(db), dbPath))
    /\ UNCHANGED <<disk, heap, cache, routers, log, dumps, generated,
                   routeDirectories, vhostDirectories, staticDirectories, phase,
                   mappings, served, proxyRes, headers>>

\* DatabaseManager.operation(f)
operation(f) ==
    /\ phase = "database"
    /\ db.opened < MaxConnections
    /\ db' = DbCall(Operation(DbBefore(db), f))
    /\ UNCHANGED <<disk, heap, cache, routers, log, dumps, generated,
                   routeDirectories, vhostDirectories, staticDirectories, phase,
                   mappings, served, proxyRes, headers>>

NextDb ==
    \/ \E dbPath \in DbPaths : init(dbPath)
    \/ \E f \in Functions : operation(f)

SpecDb == InitDb /\ [][NextDb]_vars

\* the build run twice in one process: the middleware directory holds k.js
\* beside m.js, and the handlers of routes/ and routes/admin/ name it
InitRebuild ==
    /\ \E a \in DirUseHandlers("/x") \cup DirSpecificUseHandlers("/x")
                  \cup PlainHandlers("/x", "get"),
          c \in DirUseHandlers("/c") \cup DirSpecificUseHandlers("/c") \cup {Absent},
          k \in {Absent, Middleware(Some("respond"), None),
                 Middleware(Some("respond"), Some(MaxPrio))},
          m \in FilesM :
          disk = WithFile(Disk(a, Absent, c, Absent, m, Absent,
                               PlainS("respond"), Absent,
                               <<"README", "bare.{}", "blog.{}", "plain", "shop.{}">>),
                          <<"mw">>, "k.js", k)
    /\ InitBoot
    /\ NoProxying

\* setupFromState() called a second time on the same ServerManager
setupFromStateAgain ==
    /\ phase = "built"
    /\ \E done \in {SetupFromState(BuildState(heap, cache, routers, log, dumps,
                                              generated, None))} :
          /\ heap' = done.heap
          /\ cache' = done.cache
          /\ routers' = done.routers
          /\ log' = done.log
          /\ dumps' = done.dumps
          /\ generated' = done.generated
          /\ phase' = IF IsDef(done.exc) THEN "crashed" ELSE "rebuilt"
    /\ UNCHANGED <<disk, routeDirectories, vhostDirectories, staticDirectories,
                   mappings, served, proxyRes, headers, db>>

NextRebuild ==
    \/ \E dir \in RouteRoots : addRouteDirectory(dir)
    \/ \E dir \in StaticRoots : addStaticDirectory(dir)
    \/ setupFromState
    \/ setupFromStateAgain

SpecRebuild == InitRebuild /\ [][NextRebuild]_vars

-----------------------------------------------------------------------------
(* What the claims speak of                                                 *)

IsEntry(layer) == layer.kind \in {"route", "use"}

\* the route and middleware entries registered on router r, in order
EntriesOf(r) == SelectSeq(routers[r], IsEntry)

\* the positions on router r of the layers of one kind
PositionsOf(r, kinds) == {i \in 1..Len(routers[r]) : routers[r][i].kind \in kinds}

\* setupFromState has run to its end
Built == phase \in {"built", "guarded", "listening"}

\* setupFromState has run, to its end or to an exception
SetUp == phase # "configure"

\* the default tree was built from routes/
RoutesScanned == SetUp /\ routeDirectories # <<>>

FileOf(p) == disk.mods[p].exports

HasFile(p) == p \in DOMAIN disk.mods

\* a file that passes the validation of #loadRoutes as its author meant it:
\* it loads, has a path and a methods table with a recognized key
IsValidHandler(p) ==
    /\ HasFile(p)
    /\ disk.mods[p].loads
    /\ TruthyStr(FileOf(p).path)
    /\ IsDef(FileOf(p).methods)
    /\ \E i \in 1..Len(Val(FileOf(p).methods)) :
          Val(FileOf(p).methods)[i].key \in RecognizedMethods

\* the module object of the file at p is bound on some router
IsRegistered(p) ==
    /\ p \in DOMAIN cache
    /\ \E r \in 1..Len(routers) : \E i \in 1..Len(routers[r]) :
          routers[r][i].kind \in {"route", "use"} /\ routers[r][i].obj = cache[p]

LoggedFor(level, what, file) ==
    \E i \in 1..Len(log) : log[i] = LogEntry(level, what, file)

-----------------------------------------------------------------------------
(* C1: on every router the route and middleware entries are registered in   *)
(* non-increasing priority order, and among entries of equal priority the   *)
(* routes come first, in the order their files were listed, then the        *)
(* middleware.                                                              *)

C1_SortedAndStable ==
    \A r \in 1..Len(routers) :
        LET e == EntriesOf(r)
        IN  \A i, j \in 1..Len(e) :
                i < j =>
                    /\ e[i].priority >= e[j].priority
                    /\ e[i].priority = e[j].priority =>
                          /\ ~(e[i].kind = "use" /\ e[j].kind = "route")
                          /\ (e[i].kind = "route" /\ e[j].kind = "route")
                                => e[i].obj <= e[j].obj

-----------------------------------------------------------------------------
(* C2: in a build that registers at least one entry on a router, every      *)
(* subdirectory is mounted exactly once, after every entry of priority > 0  *)
(* and before every entry of priority <= 0.                                 *)

C2_MountsAtThreshold ==
    Built =>
        /\ \A r \in 1..Len(routers) :
              \A m \in PositionsOf(r, {"mount"}), e \in PositionsOf(r, {"route", "use"}) :
                  /\ routers[r][e].priority > 0 => e < m
                  /\ routers[r][e].priority <= 0 => m < e
        /\ (routeDirectories # <<>> /\ EntriesOf(1) # <<>>) =>
              \A name \in {"admin", "api"} :
                  Cardinality({m \in PositionsOf(1, {"mount"}) :
                                  routers[1][m].path = name}) = 1

-----------------------------------------------------------------------------
(* C3: a request whose hostname has no row in mappings, once it reaches the *)
(* proxy middleware, has next() called once with no error, and the          *)
(* middleware raises no error.                                              *)

ProxyInvoked ==
    /\ IsDef(served)
    /\ \E i \in 1..Len(Val(served).result.visited) :
          Val(served).result.visited[i].fn = "proxy"

LookupMissed == IsDef(served) /\ Val(served).request.hostname \notin DOMAIN mappings

EventCount(e) ==
    Cardinality({i \in 1..Len(Val(served).result.events) :
                    Val(served).result.events[i] = e})

C3_MissFallsThrough ==
    (ProxyInvoked /\ LookupMissed) =>
        /\ EventCount("proxy:next()") = 1
        /\ EventCount("proxy:TypeError") = 0
        /\ EventCount("proxy:ReferenceError") = 0

-----------------------------------------------------------------------------
(* C4: the header rewrite replaces every occurrence of the backend hostname *)
(* in a string header value by the request hostname, leaves a string value  *)
(* without it unchanged, and leaves a non-string value unchanged.           *)

\* every occurrence of pat in s replaced, from left to right
RECURSIVE ReplaceAll(_, _, _)
ReplaceAll(s, pat, rep) ==
    IF IndexOf(s, pat) = 0
    THEN s
    ELSE SubSeq(s, 1, IndexOf(s, pat) - 1) \o rep
           \o ReplaceAll(SubSeq(s, IndexOf(s, pat) + Len(pat), Len(s)), pat, rep)

C4_AllOccurrencesReplaced ==
    phase = "decorated" =>
        \A x \in DOMAIN proxyRes :
            IF proxyRes[x].isString
            THEN headers[x] = StringValue(ReplaceAll(proxyRes[x].chars,
                                                     mappings[HostName], HostName))
            ELSE headers[x] = proxyRes[x]

-----------------------------------------------------------------------------
(* C5: when loading a file throws, the failure is logged, the file is       *)
(* skipped, the build does not raise, and the valid files beside it are     *)
(* registered.                                                              *)

LoadFailed == \E i \in 1..Len(log) : log[i].level = "error" /\ log[i].what = "load"

C5_LoadFailureSkipped ==
    (SetUp /\ LoadFailed) =>
        /\ phase # "crashed"
        /\ \A p \in {<<"routes", "a.js">>, <<"routes", "b.js">>} :
              IsValidHandler(p) => IsRegistered(p)

-----------------------------------------------------------------------------
(* C6: a handler module without a path, or without a recognized method key  *)
(* (a module without a methods table included), is never registered, has a  *)
(* warning logged, and the build goes on with the files beside it.          *)

IsInvalidHandler(p) ==
    /\ HasFile(p)
    /\ disk.mods[p].loads
    /\ ~IsValidHandler(p)

C6_InvalidHandlerSkipped ==
    (RoutesScanned /\ ~LoadFailed /\ IsInvalidHandler(<<"routes", "a.js">>)) =>
        /\ phase # "crashed"
        /\ ~IsRegistered(<<"routes", "a.js">>)
        /\ LoggedFor("warn", "nopath", "a.js") \/ LoggedFor("warn", "nomethods", "a.js")
        /\ IsValidHandler(<<"routes", "b.js">>) => IsRegistered(<<"routes", "b.js">>)

-----------------------------------------------------------------------------
(* C7: a directory that yields no valid handler and no middleware entry     *)
(* still has one child router mounted per subdirectory, at every depth:     *)
(* when routes/admin yields nothing, routes/admin is mounted on the root    *)
(* and routes/admin/deep is mounted once on the router of routes/admin.     *)

MountsOf(r, name) == {m \in PositionsOf(r, {"mount"}) : routers[r][m].path = name}

\* the build reached routes/admin: the scan of routes/ and the resolution of
\* its middleware did not throw
RootScanned ==
    /\ RoutesScanned
    /\ \A i \in 1..Len(log) :
          (log[i].level = "error" /\ log[i].what = "load") => log[i].file = "d.js"
    /\ HasFile(<<"routes", "a.js">>) => IsDef(FileOf(<<"routes", "a.js">>).methods)

C7_EmptyDirectoryMounts ==
    (RootScanned /\ ~HasFile(<<"routes", "admin", "c.js">>)) =>
        /\ Cardinality(MountsOf(1, "admin")) = 1
        /\ \A m \in MountsOf(1, "admin") :
              /\ EntriesOf(routers[1][m].child) = <<>>
              /\ Cardinality(MountsOf(routers[1][m].child, "deep")) = 1

-----------------------------------------------------------------------------
(* C8: for a handler without specificUsePriorities, the resolved middleware *)
(* entries get strictly decreasing priorities in encounter order, the first *)
(* equal to startingUsePriority whatever integer it is, or -1 when absent.  *)

\* the priorities of the middleware objects of the build, in the order in
\* which they were created
RECURSIVE UsePriorities(_)
UsePriorities(h) ==
    IF h = <<>>
    THEN <<>>
    ELSE (IF Head(h).type = Some("use") THEN <<Val(Head(h).priority)>> ELSE <<>>)
           \o UsePriorities(Tail(h))

\* a.js is the one file with a use list, the list is of inline functions, and
\* the scan of routes/ came to its end
OnlyInlineUse ==
    /\ RoutesScanned
    /\ ~LoggedFor("error", "load", "b.js")
    /\ IsValidHandler(<<"routes", "a.js">>)
    /\ IsDef(FileOf(<<"routes", "a.js">>).use)
    /\ \A i \in 1..Len(Flat(Val(FileOf(<<"routes", "a.js">>).use))) :
          Flat(Val(FileOf(<<"routes", "a.js">>).use))[i].isFn
    /\ ~IsDef(FileOf(<<"routes", "a.js">>).specificUsePriorities)
    /\ \A p \in DOMAIN disk.mods \ {<<"routes", "a.js">>} : ~IsDef(FileOf(p).use)

C8_DecreasingFromStart ==
    OnlyInlineUse =>
        /\ Len(UsePriorities(heap)) = Len(Flat(Val(FileOf(<<"routes", "a.js">>).use)))
        /\ UsePriorities(heap)[1] =
              (IF IsDef(FileOf(<<"routes", "a.js">>).startingUsePriority)
               THEN Val(FileOf(<<"routes", "a.js">>).startingUsePriority)
               ELSE -1)
        /\ \A i \in 1..(Len(UsePriorities(heap)) - 1) :
              UsePriorities(heap)[i + 1] < UsePriorities(heap)[i]

-----------------------------------------------------------------------------
(* C9: when the build of one vhost fails, every other matching vhost with a *)
(* routes directory is still built and mounted, whatever the order of the   *)
(* listing.                                                                 *)

VhostFile(name) == <<"vhosts", name, "routes", "s.js">>

VhostFails(name) == HasFile(VhostFile(name)) /\ ~disk.mods[VhostFile(name)].loads

VhostMounted(hostname) ==
    \E i \in 1..Len(routers[1]) :
        routers[1][i].kind = "vhost" /\ routers[1][i].host = hostname

C9_OtherVhostsBuilt ==
    (SetUp /\ vhostDirectories # <<>>
       /\ (VhostFails("shop.{}") \/ VhostFails("blog.{}"))) =>
        /\ ~VhostFails("shop.{}") => VhostMounted(VhostName("shop"))
        /\ ~VhostFails("blog.{}") => VhostMounted(VhostName("blog"))

-----------------------------------------------------------------------------
(* C10: every handler a request runs belongs to one dispatch tree: the      *)
(* subtree of the vhost mounted for the request's hostname, or the default  *)
(* tree when no vhost is mounted for it.                                    *)

OwnerOf(req) == IF VhostMounted(req.hostname) THEN req.hostname ELSE <<>>

C10_OneTreePerRequest ==
    IsDef(served) =>
        \A i \in 1..Len(Val(served).result.visited) :
            Val(served).result.visited[i].kind \in {"route", "use"} =>
                Val(served).result.visited[i].tree = OwnerOf(Val(served).request)

-----------------------------------------------------------------------------
(* C11: every request that reaches the proxy middleware, the all handler of *)
(* the proxy module or the error fallback is answered in the end: none of   *)
(* the three schedules work for later, so once the dispatch has returned    *)
(* either a response was sent or the socket was closed.                     *)

ReachedOwnHandler ==
    /\ IsDef(served)
    /\ \E i \in 1..Len(Val(served).result.visited) :
          Val(served).result.visited[i].fn \in {"proxy", "void", "fallback"}

\* the dispatch is over and nothing was sent, nothing closed, nothing pending
Stalled ==
    /\ IsDef(served)
    /\ ~Val(served).result.headersSent
    /\ EventCount("destroyed") = 0

C11_NoRequestStalled == ReachedOwnHandler => ~Stalled

-----------------------------------------------------------------------------
(* C12: once the manager is initialised, a call of operation opens one      *)
(* connection and closes it exactly once, before the call returns f's       *)
(* result or re-throws f's error; after any sequence of calls, nested and   *)
(* throwing ones included, no connection is open.                           *)

TracePositions(op, conn) ==
    {i \in 1..Len(db.trace) : db.trace[i] = [op |-> op, conn |-> conn]}

TraceConnections == {db.trace[i].conn : i \in 1..Len(db.trace)}

\* connection c was opened, f ran on it, it was closed once, and only then
\* did its call of operation end, once
ClosedBeforeLeaving(c) ==
    /\ Cardinality(TracePositions("open", c)) = 1
    /\ Cardinality(TracePositions("run", c)) = 1
    /\ Cardinality(TracePositions("close", c)) = 1
    /\ Cardinality(TracePositions("return", c) \cup TracePositions("throw", c)) = 1
    /\ \A o \in TracePositions("open", c), r \in TracePositions("run", c),
          k \in TracePositions("close", c),
          l \in TracePositions("return", c) \cup TracePositions("throw", c) :
          o < r /\ r < k /\ k < l

\* the call that made the trace ended as the f of its own connection ended:
\* with the result of that f, or with the error that reached it
OutcomeOfF ==
    (db.trace # <<>> /\ IsDef(db.outcome)) =>
        LET c == db.trace[1].conn
        IN  \/ /\ Val(db.outcome).kind = "return"
               /\ Val(db.outcome).value \in {<<"result", c>>, <<"DatabaseManager">>}
               /\ TracePositions("return", c) # {}
            \/ /\ Val(db.outcome).kind = "throw"
               /\ Val(db.outcome).value[1] = "error"
               /\ Val(db.outcome).value[2] \in TraceConnections
               /\ TracePositions("throw", c) # {}
               /\ TracePositions("throw", Val(db.outcome).value[2]) # {}

C12_ClosedExactlyOnce ==
    /\ db.open = {}
    /\ \A c \in 1..db.opened : db.closes[c] = 1
    /\ \A c \in TraceConnections : ClosedBeforeLeaving(c)
    /\ OutcomeOfF

\* a call whose f called operation, the inner f threw, and the error came out
C12_NestedThrowSeen ==
    /\ db.ready
    /\ IsDef(db.outcome)
    /\ Val(db.outcome).kind = "throw"
    /\ Cardinality(TraceConnections) >= 2
    /\ Val(db.outcome).value[2] # db.trace[1].conn
    /\ Val(db.outcome).value[2] \in TraceConnections

-----------------------------------------------------------------------------
(* C13: when an error reaches the top-level fallback and the headers have   *)
(* not been sent, the fallback sets the status to 500 and logs at critical  *)
(* level; when they have been sent, it passes the error on with next(err),  *)
(* leaves the status as it was and writes nothing.                          *)

FallbackRan ==
    /\ IsDef(served)
    /\ \E i \in 1..Len(Val(served).result.visited) :
          Val(served).result.visited[i].fn = "fallback"

EventPositions(e) ==
    {i \in 1..Len(Val(served).result.events) : Val(served).result.events[i] = e}

C13_FallbackByHeadersSent ==
    FallbackRan =>
        \/ /\ EventCount("responded") = 0
           /\ EventCount("fallback:critical") = 1
           /\ EventCount("fallback:next(err)") = 0
           /\ Val(served).result.status = 500
           /\ ~Val(served).result.headersSent
        \/ /\ EventCount("responded") = 1
           /\ EventCount("fallback:next(err)") = 1
           /\ EventCount("fallback:critical") = 0
           /\ Val(served).result.status = 200
           /\ \A r \in EventPositions("responded"),
                 f \in EventPositions("fallback:next(err)") :
                 /\ r < f
                 /\ f + 1 = Len(Val(served).result.events)
                 /\ Val(served).result.events[f + 1] = "destroyed"

\* an error raised after a handler had answered reached the fallback
C13_ForwardedAfterSend ==
    /\ FallbackRan
    /\ EventCount("responded") = 1
    /\ EventCount("fallback:next(err)") = 1

-----------------------------------------------------------------------------
(* C14: two builds of the same directory tree in one process give the same  *)
(* structural description, the generated router ids apart: the same entries *)
(* in the same order, with the same kinds, paths, priorities and method     *)
(* sets, and the same children; nothing but the ids differs.                *)

\* a structural description without the router ids
RECURSIVE Shape(_)
Shape(structure) ==
    [path |-> structure.path,
     routeStack |-> structure.routeStack,
     children |-> [i \in 1..Len(structure.children) |-> Shape(structure.children[i])]]

\* C14: the second build's description equals the first one's, ids apart
C14_RebuildIdentical ==
    (phase = "rebuilt" /\ Len(dumps) = 2) => Shape(dumps[1]) = Shape(dumps[2])

-----------------------------------------------------------------------------
(* C15: for a directory reference #getUses returns one entry for every .js  *)
(* module with a run function anywhere under the directory, nested          *)
(* directories included, none for a module without run, each with its       *)
(* declared priority or 0, in non-increasing priority order with ties in    *)
(* discovery order.                                                         *)

\* the .js files under dir, at any depth
ModulesUnder(dir) ==
    {p \in DOMAIN disk.mods :
        /\ Len(p) > Len(dir)
        /\ SubSeq(p, 1, Len(dir)) = dir
        /\ Extension(p[Len(p)]) = "js"}

\* those of them that export a run function
RunModulesUnder(dir) ==
    {p \in ModulesUnder(dir) : disk.mods[p].loads /\ IsDef(disk.mods[p].exports.run)}

\* the place of a name in the listing of its directory
ListedAt(p) ==
    CHOOSE i \in 1..Len(Readdir(SubSeq(p, 1, Len(p) - 1))) :
        Readdir(SubSeq(p, 1, Len(p) - 1))[i] = p[Len(p)]

\* what the claim says of the entries returned for dir
ReturnsAllOf(dir, result) ==
    LET uses == result.uses
        at == result.st.cache
        prio(i) == Val(result.st.heap[uses[i]].priority)
    IN  /\ \A p \in RunModulesUnder(dir) :
              /\ p \in DOMAIN at
              /\ Cardinality({i \in 1..Len(uses) : uses[i] = at[p]}) = 1
              /\ \A i \in 1..Len(uses) :
                    uses[i] = at[p] =>
                        prio(i) = IF IsDef(disk.mods[p].exports.priority)
                                  THEN Val(disk.mods[p].exports.priority)
                                  ELSE 0
        /\ \A i \in 1..Len(uses) :
              \E p \in RunModulesUnder(dir) : p \in DOMAIN at /\ uses[i] = at[p]
        /\ \A i, j \in 1..Len(uses) : i < j => prio(i) >= prio(j)
        /\ \A i, j \in 1..Len(uses) :
              \A p, q \in RunModulesUnder(dir) :
                  (/\ i < j /\ prio(i) = prio(j)
                   /\ p \in DOMAIN at /\ q \in DOMAIN at
                   /\ uses[i] = at[p] /\ uses[j] = at[q]
                   /\ SubSeq(p, 1, Len(p) - 1) = SubSeq(q, 1, Len(q) - 1))
                  => ListedAt(p) < ListedAt(q)

\* C15: while no module under mw/ is loaded yet, #getUses("mw") returns what
\* the claim says
C15_GetUsesReturnsEveryModule ==
    (\A p \in ModulesUnder(<<"mw">>) : p \notin DOMAIN cache)
    => With(GetUsesDir(BuildState(heap, cache, routers, log, dumps, generated, None),
                       <<"mw">>), LAMBDA result :
            ~IsDef(result.st.exc) => ReturnsAllOf(<<"mw">>, result))

-----------------------------------------------------------------------------
(* C16: on the router of the directory that holds the proxy module, the     *)
(* proxy middleware is registered with priority 100 and comes before every  *)
(* route handler registered on that router, whatever its priority, and      *)
(* before every subdirectory mount.                                         *)

\* the layers the proxy middleware has on the router of routes/
ProxyLayers ==
    {j \in PositionsOf(1, {"use"}) : routers[1][j].fn = "proxy"}

\* the layer at position i comes after the proxy middleware
AfterProxy(i) == \E j \in ProxyLayers : j < i

\* C16 as claimed: every route handler and every mount of the router follows
\* the proxy middleware, which has priority 100
C16_ProxyPrecedesEveryRoute ==
    /\ \A j \in ProxyLayers : routers[1][j].priority = ProxyPriority
    /\ \A i \in PositionsOf(1, {"route", "mount"}) : AfterProxy(i)

\* C16 as the code has it: the route handlers of priority below 100 and the
\* mounts follow the proxy middleware, which is registered once with
\* priority 100
C16_ProxyPrecedesLowerRoutes ==
    /\ Cardinality(ProxyLayers) <= 1
    /\ \A j \in ProxyLayers : routers[1][j].priority = ProxyPriority
    /\ \A i \in PositionsOf(1, {"mount"}) : AfterProxy(i)
    /\ \A i \in PositionsOf(1, {"route"}) :
          routers[1][i].priority < ProxyPriority => AfterProxy(i)

\* a finished build whose router holds the proxy middleware, the all route,
\* another handler of lower priority behind it and the two mounts
C16_ProxyBeforeHandlerAndMounts ==
    /\ Built
    /\ ProxyLayers # {}
    /\ \E i \in PositionsOf(1, {"route"}) :
          routers[1][i].method = "all" /\ AfterProxy(i)
    /\ \E i \in PositionsOf(1, {"route"}) :
          /\ routers[1][i].method = "post"
          /\ routers[1][i].priority > 0
          /\ AfterProxy(i)
    /\ Cardinality(PositionsOf(1, {"mount"})) = 2

-----------------------------------------------------------------------------
(* C17: a directory directly under a registered vhost root gets a dispatch  *)
(* tree, mounted exactly once behind <matched-name>.<basehostname>, if and  *)
(* only if its name matches the vhost naming convention and it holds a      *)
(* subdirectory named routes; nothing else is mounted, and the mounted tree *)
(* is built from that directory's routes subtree only.                      *)

\* name, listed in the vhost root, is a vhost directory with routes
IsVhostWithRoutes(root, name) ==
    /\ IsDirectory(Append(root, name))
    /\ IsDef(VhostMatch(name))
    /\ IsDirectory(root \o <<name, "routes">>)

\* the layers of this.app that put a router behind the hostname of name
VhostLayersOf(name) ==
    {i \in PositionsOf(1, {"vhost"}) :
        IsDef(VhostMatch(name)) /\ routers[1][i].host = VhostName(Val(VhostMatch(name)))}

\* the route entries of the router behind layer i come from the files under
\* the routes directory of name
BuiltFromOwnRoutes(root, name, i) ==
    \A e \in PositionsOf(routers[1][i].child, {"route"}) :
        \E p \in ModulesUnder(root \o <<name, "routes">>) :
            p \in DOMAIN cache /\ cache[p] = routers[routers[1][i].child][e].obj

\* C17: after setupFromState, each name of the vhost root is mounted once when
\* it is a vhost directory with routes and not at all otherwise
C17_VhostMountedIffConvention ==
    (SetUp /\ vhostDirectories # <<>>) =>
        /\ \A name \in Range(Readdir(<<"vhosts">>)) :
              /\ Cardinality(VhostLayersOf(name)) =
                    IF IsVhostWithRoutes(<<"vhosts">>, name) THEN 1 ELSE 0
              /\ \A i \in VhostLayersOf(name) : BuiltFromOwnRoutes(<<"vhosts">>, name, i)
        /\ PositionsOf(1, {"vhost"}) =
              UNION {VhostLayersOf(name) : name \in Range(Readdir(<<"vhosts">>))}

-----------------------------------------------------------------------------
(* C18: validating a handler module has no side effect other than logging:  *)
(* the loaded module object is the same after validation as before, whether *)
(* the module is accepted or rejected.                                      *)

\* the handler files that were loaded
LoadedHandlers ==
    (ModulesUnder(<<"routes">>) \cup ModulesUnder(<<"vhosts">>)) \cap DOMAIN cache

\* the recognized keys of a methods table, in the order of the table
RecognizedKeys(f) ==
    LET Known(key) == key \in RecognizedMethods
    IN  SelectSeq([i \in 1..Len(Val(f.methods)) |-> Val(f.methods)[i].key], Known)

\* the exports f of the file p with the three fields validation writes: the
\* priority 0 of a module with a path that declares none, and validMethods
\* and filename of a module that is accepted
Validated(p, f) ==
    LET defaulted == IF TruthyStr(f.path) /\ ~IsDef(f.priority)
                     THEN [f EXCEPT !.priority = Some(0)]
                     ELSE f
    IN  IF IsValidHandler(p)
        THEN [defaulted EXCEPT !.validMethods = Some(RecognizedKeys(f)),
                               !.filename = Some(p[Len(p)])]
        ELSE defaulted

\* C18 as claimed: the module object of every loaded handler file is what the
\* file exports
C18_ValidationLeavesModule ==
    \A p \in LoadedHandlers : heap[cache[p]] = FileOf(p)

\* C18 as the code has it: the module object differs from the exports in the
\* three fields only, and no other object carries validMethods or filename
C18_ValidationWritesThreeFields ==
    /\ \A p \in LoadedHandlers : heap[cache[p]] = Validated(p, FileOf(p))
    /\ \A i \in 1..Len(heap) :
          (IsDef(heap[i].validMethods) \/ IsDef(heap[i].filename)) =>
              \E p \in LoadedHandlers : cache[p] = i /\ IsValidHandler(p)

\* a build validated an accepted module and a rejected one, neither of which
\* declares a priority: both have priority 0, the accepted one its two fields
C18_AcceptedAndRejectedSeen ==
    /\ Built
    /\ {<<"routes", "a.js">>, <<"routes", "b.js">>} \subseteq LoadedHandlers
    /\ ~IsValidHandler(<<"routes", "a.js">>)
    /\ ~IsDef(FileOf(<<"routes", "a.js">>).priority)
    /\ heap[cache[<<"routes", "a.js">>]].priority = Some(0)
    /\ IsValidHandler(<<"routes", "b.js">>)
    /\ ~IsDef(FileOf(<<"routes", "b.js">>).priority)
    /\ heap[cache[<<"routes", "b.js">>]].priority = Some(0)
    /\ heap[cache[<<"routes", "b.js">>]].filename = Some("b.js")

-----------------------------------------------------------------------------
(* C19: the server starts listening only after the construction has run to  *)
(* its end: the vhost trees, then the default tree, then the global         *)
(* statics, then the error fallback are registered on the application       *)
(* before start(), and nothing is registered once the server listens.       *)

\* the stack of this.app holds the vhost routers, then the entries and mounts
\* of the default tree, then one static layer per static directory, then the
\* error fallback as its last layer
ConstructionComplete ==
    LET stack == routers[1]
        n == Len(stack)
        k == Len(staticDirectories)
    IN  /\ n >= k + 1
        /\ stack[n].kind = "error"
        /\ PositionsOf(1, {"error"}) = {n}
        /\ \A j \in 1..k :
              /\ stack[n - 1 - k + j].kind = "static"
              /\ stack[n - 1 - k + j].path = staticDirectories[j]
        /\ \A v \in PositionsOf(1, {"vhost"}),
              e \in PositionsOf(1, {"route", "use", "mount"}) :
              v < e /\ e < n - k
        /\ PositionsOf(1, {"vhost"}) \subseteq 1..(n - k - 1)
        /\ phase # "crashed"

\* C19: a step that leaves the server listening leaves the construction
\* complete, and a step of the listening server changes no router
C19_ListeningAfterConstruction ==
    [][/\ phase' = "listening" => ConstructionComplete'
       /\ phase = "listening" => (routers' = routers /\ phase' = "listening")]_vars

\* the listening server answered a request, with a vhost router, a handler of
\* the default tree and a static directory on the application
C19_ServingBuiltTree ==
    /\ phase = "listening"
    /\ IsDef(served)
    /\ PositionsOf(1, {"vhost"}) # {}
    /\ PositionsOf(1, {"route"}) # {}
    /\ PositionsOf(1, {"static"}) # {}

-----------------------------------------------------------------------------
(* C20: in the merge only the middleware entries without an explicit        *)
(* priority are given one, the handler's specificUsePriorities value at     *)
(* their position or else the next value of the fallback counter; an entry  *)
(* resolved from a module that declares a priority keeps the declared       *)
(* priority in the registration sequence.                                   *)

\* the middleware layers, on any router, of the module object of the file p
UseLayersOf(p) ==
    {<<r, i>> \in UNION {{r} \X PositionsOf(r, {"use"}) : r \in 1..Len(routers)} :
        p \in DOMAIN cache /\ routers[r][i].obj = cache[p]}

\* p is a valid handler whose use list names the middleware directory, and
\* the one file with a use list
UsesDirectory(p) ==
    /\ IsValidHandler(p)
    /\ \A q \in DOMAIN disk.mods \ {p} : ~IsDef(FileOf(q).use)
    /\ IsDef(FileOf(p).use)
    /\ \E i \in 1..Len(Flat(Val(FileOf(p).use))) : ~Flat(Val(FileOf(p).use))[i].isFn

\* the priority the claim gives the first middleware entry of the handler p
\* resolved from the module q
MergedPriority(p, q) ==
    IF IsDef(FileOf(q).priority)
    THEN Val(FileOf(q).priority)
    ELSE IF IsDef(SpecificPriority(FileOf(p).specificUsePriorities, 0))
    THEN Val(SpecificPriority(FileOf(p).specificUsePriorities, 0))
    ELSE IF IsDef(FileOf(p).startingUsePriority)
    THEN Val(FileOf(p).startingUsePriority)
    ELSE -1

\* C20: mw/m.js is registered for routes/a.js with its declared priority, or
\* with the one the handler assigns when it declares none
C20_DeclaredPriorityKept ==
    (Built /\ routeDirectories # <<>> /\ UsesDirectory(<<"routes", "a.js">>)) =>
        \A l \in UseLayersOf(<<"mw", "m.js">>) :
            l[1] = 1 =>
                routers[1][l[2]].priority =
                    MergedPriority(<<"routes", "a.js">>, <<"mw", "m.js">>)

-----------------------------------------------------------------------------
(* C21: for every request the proxy middleware calls next at most once,     *)
(* whether the lookup misses or hits, and once it has called next() it does *)
(* nothing more for that request: it raises nothing, forwards nothing and   *)
(* leaves the response alone.                                               *)

\* what the proxy middleware itself does to a request
ProxyEvents == {"proxy:next()", "proxy:TypeError", "proxy:ReferenceError"}

\* C21: at most one next() of the proxy middleware, and none of its events
\* after it
C21_NextOnceThenNothing ==
    ProxyInvoked =>
        /\ EventCount("proxy:next()") <= 1
        /\ \A i \in EventPositions("proxy:next()") :
              \A j \in (i + 1)..Len(Val(served).result.events) :
                  Val(served).result.events[j] \notin ProxyEvents

-----------------------------------------------------------------------------
(* C22: every handler module that passes the validation of #loadRoutes (a   *)
(* path and at least one recognized method key) gets at least one method    *)
(* binding on its router and at least one route entry in the structural     *)
(* description; none is reported as loaded with no binding at all.          *)

\* the module object of the file p has a method bound on some router
HasBinding(p) ==
    /\ p \in DOMAIN cache
    /\ \E r \in 1..Len(routers) : \E i \in PositionsOf(r, {"route"}) :
          routers[r][i].obj = cache[p]

\* a description of the build has a route entry for the file named name
HasRouteEntry(name) ==
    \E k \in 1..Len(dumps) : \E i \in 1..Len(dumps[k].routeStack) :
        /\ dumps[k].routeStack[i].type = "route"
        /\ dumps[k].routeStack[i].filename = Some(name)

\* C22: in a finished build of routes/, a.js and b.js are bound and described
\* when they are valid, and when they are logged as loaded
C22_ValidatedHandlerBound ==
    (Built /\ routeDirectories # <<>>) =>
        \A p \in {<<"routes", "a.js">>, <<"routes", "b.js">>} :
            (IsValidHandler(p) \/ LoggedFor("info", "loaded", p[Len(p)])) =>
                HasBinding(p) /\ HasRouteEntry(p[Len(p)])

-----------------------------------------------------------------------------
(* C23: the build of a finite directory tree ends, and every directory      *)
(* below a root is built exactly once, as a child router mounted at         *)
(* /<dirname> on the router of its parent, with a structure path made of    *)
(* the /<dirname> segments from the root; none is built twice or skipped.   *)

\* the directories below the route root
DirectoriesBelow(root) ==
    {d \in disk.dirs : Len(d) > Len(root) /\ SubSeq(d, 1, Len(root)) = root}

\* the routers built for the directory reached from router r by the segments
\* todo, one per chain of mounts named after them
RECURSIVE RoutersAt(_, _)
RoutersAt(r, todo) ==
    IF todo = <<>>
    THEN <<r>>
    ELSE Concat([i \in 1..Len(routers[r]) |->
                    IF routers[r][i].kind = "mount" /\ routers[r][i].path = Head(todo)
                    THEN RoutersAt(routers[r][i].child, Tail(todo))
                    ELSE <<>>])

\* the nodes of a structural description reached by the segments todo, each
\* with the path of the segments so far
RECURSIVE NodesAt(_, _, _)
NodesAt(structure, done, todo) ==
    IF todo = <<>>
    THEN <<structure>>
    ELSE Concat([i \in 1..Len(structure.children) |->
                    IF structure.children[i].path.pathPrefix = Append(done, Head(todo))
                    THEN NodesAt(structure.children[i], Append(done, Head(todo)),
                                 Tail(todo))
                    ELSE <<>>])

\* the descriptions of the default tree
DefaultDumps ==
    SelectSeq(dumps, LAMBDA structure : structure.path.prefix = Some(<<BaseHostname>>))

\* C23: once setupFromState has run on routes/, each directory below it has
\* one router, mounted under its name on its parent's, and one node in the
\* description of the tree
C23_EveryDirectoryBuiltOnce ==
    (SetUp /\ routeDirectories # <<>>) =>
        /\ Len(DefaultDumps) = 1
        /\ \A d \in DirectoriesBelow(<<"routes">>) :
              /\ Len(RoutersAt(1, SubSeq(d, 2, Len(d)))) = 1
              /\ Len(NodesAt(DefaultDumps[1], <<>>, SubSeq(d, 2, Len(d)))) = 1

-----------------------------------------------------------------------------
(* C24: in any sequence of init and operation calls, operation before a     *)
(* successful init throws without opening a connection or running f, init   *)
(* with no path throws and does not make the manager ready, and the manager *)
(* is ready only after an init whose table-creation operation completed     *)
(* without error.                                                           *)

\* operation called on a manager that is not ready: it throws, nothing is
\* opened and nothing runs
OperationRefused ==
    (~db.ready /\ \E f \in Functions : operation(f)) =>
        /\ db'.outcome = Some(Thrown(<<"error", "not initialised">>))
        /\ db'.opened = db.opened
        /\ db'.trace = <<>>
        /\ ~db'.ready

\* init called with no path: it throws and the manager is as ready as before
InitWithoutPathRefused ==
    init(None) =>
        /\ db'.outcome = Some(Thrown(<<"error", "no database path provided">>))
        /\ db'.ready = db.ready
        /\ db'.opened = db.opened

\* the manager becomes ready only by a call of init that returned
ReadyBySuccessfulInit ==
    (~db.ready /\ db'.ready) => db'.outcome = Some(Returned(<<"DatabaseManager">>))

C24_ReadyOnlyAfterInit ==
    [][OperationRefused /\ InitWithoutPathRefused /\ ReadyBySuccessfulInit]_vars

====
